---- MODULE Spec2Model ----
(***************************************************************************)
(* Model of the Smartlead campaign automation app (src/app.py): the        *)
(* email-sequence compiler process_email_sequences with its text passes,   *)
(* and the launch pipeline that calls it; and of the title classifier's    *)
(* batch loop process_excel (src/extract_return_app.py) with its signal    *)
(* handler.                                                                *)
(*                                                                         *)
(* A Python str is a sequence of one-character strings.  The character     *)
(* U+2019 (right single quotation mark) is written "U+2019" and the        *)
(* backtick "U+0060".  A spreadsheet cell is a record                      *)
(* [t |-> kind, v |-> value]:                                              *)
(*   "nan"   an empty cell (pandas NaN)                                    *)
(*   "str"   a Python str, v the sequence of its characters                *)
(*   "int"   a Python int, v the number                                    *)
(*   "float" a Python float, v twice the number (so 3 is 1.5)              *)
(***************************************************************************)
EXTENDS Integers, Sequences, FiniteSets, TLC

VARIABLES
    file,            \* the uploaded sequences workbook: readable, cols, rows
    cstate,          \* process_email_sequences: "idle", "running", "returned"
    i,               \* number of rows df.iterrows() has yielded so far
    sequences_dict,  \* the dict of line 118, as the sequence of its values in insertion order
    loc,             \* the loop body's locals after the last completed iteration
    raised,          \* the exception caught at line 153 ("none" when none)
    payload,         \* the value process_email_sequences returned
    form,            \* the sidebar inputs and the other two workbooks of a launch
    pc,              \* the launch block's position (at = "off" when the compiler runs alone)
    sps,             \* sp_list_to_process: the SPs that have leads
    campaign_ids,    \* SPs whose campaign was created, in creation order
    api,             \* the calls made to the campaign platform, in order
    excel            \* process_excel of the title classifier: its locals, position and files written

vars == <<file, cstate, i, sequences_dict, loc, raised, payload, form, pc, sps, campaign_ids, api, excel>>

compiler_vars == <<cstate, i, sequences_dict, loc, raised, payload>>

launch_vars == <<form, pc, sps, campaign_ids, api>>

(***************************************************************************)
(* Python str primitives                                                   *)
(***************************************************************************)
Drop(s, n) == SubSeq(s, n + 1, Len(s))

StartsWith(s, p) == Len(p) <= Len(s) /\ SubSeq(s, 1, Len(p)) = p

RECURSIVE Join(_)
Join(ss) == IF ss = <<>> THEN <<>> ELSE Head(ss) \o Join(Tail(ss))

Min(S) == CHOOSE x \in S : \A y \in S : x <= y

Max(S) == CHOOSE x \in S : \A y \in S : x >= y

\* index of the first occurrence of d in s at or after position p (0 when none)
Find(s, d, p) ==
    LET at == {q \in p..(Len(s) - Len(d) + 1) : SubSeq(s, q, q + Len(d) - 1) = d}
    IN IF at = {} THEN 0 ELSE Min(at)

\* str.replace(old, new) with old = "": new goes before every character and at the end
ReplaceEmpty(s, new) ==
    [k \in 1..((Len(s) + 1) * Len(new) + Len(s)) |->
        IF (k - 1) % (Len(new) + 1) < Len(new)
        THEN new[((k - 1) % (Len(new) + 1)) + 1]
        ELSE s[((k - 1) \div (Len(new) + 1)) + 1]]

\* str.replace(old, new) with old # "": leftmost occurrences, not overlapping
RECURSIVE ReplaceScan(_, _, _)
ReplaceScan(s, old, new) ==
    LET p == Find(s, old, 1) IN
    IF p = 0 THEN s
    ELSE SubSeq(s, 1, p - 1) \o new \o ReplaceScan(Drop(s, p + Len(old) - 1), old, new)

Replace(s, old, new) ==
    IF old = <<>> THEN ReplaceEmpty(s, new) ELSE ReplaceScan(s, old, new)

Whitespace == {" ", "\n", "\t"}

RECURSIVE LStrip(_)
LStrip(s) == IF s # <<>> /\ Head(s) \in Whitespace THEN LStrip(Tail(s)) ELSE s

RECURSIVE RStrip(_)
RStrip(s) ==
    IF s # <<>> /\ s[Len(s)] \in Whitespace THEN RStrip(SubSeq(s, 1, Len(s) - 1)) ELSE s

Strip(s) == RStrip(LStrip(s))

\* str.split(sep) for a one-character sep: the pieces, at least one
RECURSIVE SplitAcc(_, _, _)
SplitAcc(s, sep, cur) ==
    IF s = <<>> THEN <<cur>>
    ELSE IF Head(s) = sep THEN <<cur>> \o SplitAcc(Tail(s), sep, <<>>)
    ELSE SplitAcc(Tail(s), sep, Append(cur, Head(s)))

Split(s, sep) == SplitAcc(s, sep, <<>>)

Map(f(_), ss) == [k \in 1..Len(ss) |-> f(ss[k])]

Range(ss) == {ss[k] : k \in 1..Len(ss)}

\* the orders in which a Python set of strings can be iterated
Orders(S) == {o \in [1..Cardinality(S) -> S] : \A a, b \in 1..Cardinality(S) : a # b => o[a] # o[b]}

\* re.findall(d (.*?) d, s) for a literal delimiter d: the groups of the leftmost,
\* non-overlapping, shortest matches; "." does not match a newline
RECURSIVE FindAllFrom(_, _, _)
FindAllFrom(s, d, p) ==
    LET open == Find(s, d, p) IN
    IF open = 0 THEN <<>>
    ELSE LET close == Find(s, d, open + Len(d)) IN
         IF close = 0 THEN <<>>
         ELSE LET group == SubSeq(s, open + Len(d), close - 1) IN
              IF "\n" \in Range(group) THEN FindAllFrom(s, d, open + 1)
              ELSE <<group>> \o FindAllFrom(s, d, close + Len(d))

FindAll(s, d) == FindAllFrom(s, d, 1)

(***************************************************************************)
(* Cells: pd.isna, str(), int()                                            *)
(***************************************************************************)
NaN == [t |-> "nan", v |-> 0]

StrCell(s) == [t |-> "str", v |-> s]

IntCell(n) == [t |-> "int", v |-> n]

FloatCell(h) == [t |-> "float", v |-> h]

isna(cell) == cell.t = "nan"

notna(cell) == ~isna(cell)

DigitChars == <<"0", "1", "2", "3", "4", "5", "6", "7", "8", "9">>

Abs(n) == IF n < 0 THEN -n ELSE n

RECURSIVE NatToStr(_)
NatToStr(n) ==
    IF n < 10 THEN <<DigitChars[n + 1]>> ELSE NatToStr(n \div 10) \o <<DigitChars[(n % 10) + 1]>>

Sign(n) == IF n < 0 THEN <<"-">> ELSE <<>>

\* str(x) of a cell value that is not NaN
PyStr(cell) ==
    CASE cell.t = "str" -> cell.v
      [] cell.t = "int" -> Sign(cell.v) \o NatToStr(Abs(cell.v))
      [] cell.t = "float" -> Sign(cell.v) \o NatToStr(Abs(cell.v) \div 2)
                             \o <<".">> \o (IF Abs(cell.v) % 2 = 1 THEN <<"5">> ELSE <<"0">>)

DigitValue(c) == CHOOSE d \in 0..9 : DigitChars[d + 1] = c

RECURSIVE DigitsToNat(_, _)
DigitsToNat(s, acc) ==
    IF s = <<>> THEN acc ELSE DigitsToNat(Tail(s), 10 * acc + DigitValue(Head(s)))

\* the digits of an int literal: the text stripped, less one leading sign
IntLiteralDigits(s) ==
    LET u == Strip(s) IN IF u # <<>> /\ Head(u) \in {"+", "-"} THEN Tail(u) ELSE u

IsIntLiteral(s) ==
    IntLiteralDigits(s) # <<>> /\ Range(IntLiteralDigits(s)) \subseteq Range(DigitChars)

\* whether int(x) returns (it raises ValueError otherwise)
IntCoercible(cell) ==
    CASE cell.t = "int" -> TRUE
      [] cell.t = "float" -> TRUE
      [] cell.t = "str" -> IsIntLiteral(cell.v)
      [] cell.t = "nan" -> FALSE

\* int(x): a float truncates toward zero
PyInt(cell) ==
    CASE cell.t = "int" -> cell.v
      [] cell.t = "float" -> IF cell.v < 0 THEN -(Abs(cell.v) \div 2) ELSE cell.v \div 2
      [] cell.t = "str" -> LET u == Strip(cell.v)
                               n == DigitsToNat(IntLiteralDigits(cell.v), 0)
                           IN IF Head(u) = "-" THEN -n ELSE n

(***************************************************************************)
(* Sequences Processing: the text passes                                   *)
(***************************************************************************)
StrongOpen == <<"<", "s", "t", "r", "o", "n", "g", ">">>

StrongClose == <<"<", "/", "s", "t", "r", "o", "n", "g", ">">>

EmOpen == <<"<", "e", "m", ">">>

EmClose == <<"<", "/", "e", "m", ">">>

\* the terms of a comma-separated auxiliary list: map(str.strip, aux.split(","))
AuxTerms(aux) == Map(Strip, Split(aux.v, ","))

\* for text in terms: body = body.replace(d + text + d, open + text + close)
RECURSIVE ReplaceDelimited(_, _, _, _, _)
ReplaceDelimited(body, terms, d, open, close) ==
    IF terms = <<>> THEN body
    ELSE ReplaceDelimited(Replace(body, d \o Head(terms) \o d, open \o Head(terms) \o close),
                          Tail(terms), d, open, close)

\* for text in terms: body = body.replace(text, open + text + close)
RECURSIVE ReplaceBare(_, _, _, _)
ReplaceBare(body, terms, open, close) ==
    IF terms = <<>> THEN body
    ELSE ReplaceBare(Replace(body, Head(terms), open \o Head(terms) \o close),
                     Tail(terms), open, close)

\* the set iterated at lines 71 and 82
AllTexts(email_body, aux, d) ==
    IF notna(aux) THEN Range(FindAll(email_body, d)) \cup Range(AuxTerms(aux))
    ELSE Range(FindAll(email_body, d))

\* the pass without the block of lines 73-75 / 84-86
AuxPassSkipped(email_body, aux, open, close) == email_body

\* lines 73-75 and 84-86
AuxPass(email_body, aux, open, close) ==
    IF notna(aux) THEN ReplaceBare(email_body, AuxTerms(aux), open, close) ELSE email_body

\* line 76
StripBold(email_body) == Replace(email_body, <<"*", "*">>, <<>>)

\* the italic pass ending with the bold pass's re.sub
StripItalicPairsOnly(email_body) == Replace(email_body, <<"*", "*">>, <<>>)

\* line 87
StripItalic(email_body) == Replace(email_body, <<"*">>, <<>>)

\* the results process_bold_text can return, one per iteration order of the set
process_bold_text(email_body, bold_texts) ==
    {StripBold(AuxPass(ReplaceDelimited(email_body, o, <<"*", "*">>, StrongOpen, StrongClose),
                       bold_texts, StrongOpen, StrongClose))
        : o \in Orders(AllTexts(email_body, bold_texts, <<"*", "*">>))}

process_italic_text(email_body, italic_texts) ==
    {StripItalic(AuxPass(ReplaceDelimited(email_body, o, <<"*">>, EmOpen, EmClose),
                         italic_texts, EmOpen, EmClose))
        : o \in Orders(AllTexts(email_body, italic_texts, <<"*">>))}

Anchor(url, text) == <<"<", "a", " ", "h", "r", "e", "f", "=", "\"">> \o url \o <<"\"", ">">> \o text \o <<"<", "/", "a", ">">>

\* re.sub(r'\[(.*?)\]\((.*?)\)', r'<a href="\2">\1</a>', s) from position p on
RECURSIVE LinkSubFrom(_, _, _)
LinkSubFrom(s, p, start) ==
    LET open == Find(s, <<"[">>, start)
        mid == IF open = 0 THEN 0 ELSE Find(s, <<"]", "(">>, open + 1)
        close == IF mid = 0 THEN 0 ELSE Find(s, <<")">>, mid + 2)
    IN IF close = 0 THEN SubSeq(s, p, Len(s))
       ELSE IF "\n" \in Range(SubSeq(s, open + 1, close - 1))
            THEN LinkSubFrom(s, p, open + 1)
            ELSE SubSeq(s, p, open - 1)
                 \o Anchor(SubSeq(s, mid + 2, close - 1), SubSeq(s, open + 1, mid - 1))
                 \o LinkSubFrom(s, close + 1, close + 1)

\* re.sub with count=1: the first match alone is rewritten
LinkSubFirstOnly(s) ==
    LET open == Find(s, <<"[">>, 1)
        mid == IF open = 0 THEN 0 ELSE Find(s, <<"]", "(">>, open + 1)
        close == IF mid = 0 THEN 0 ELSE Find(s, <<")">>, mid + 2)
    IN IF close = 0 THEN s
       ELSE SubSeq(s, 1, open - 1)
            \o Anchor(SubSeq(s, mid + 2, close - 1), SubSeq(s, open + 1, mid - 1))
            \o SubSeq(s, close + 1, Len(s))

\* line 91
LinkSub(s) == LinkSubFrom(s, 1, 1)

\* the loop of lines 94-98 taking the first two parts of every entry that has them
RECURSIVE ReplaceLinksTwoOrMore(_, _)
ReplaceLinksTwoOrMore(body, links) ==
    IF links = <<>> THEN body
    ELSE LET parts == Split(Head(links), "|") IN
         ReplaceLinksTwoOrMore(IF Len(parts) >= 2
                               THEN Replace(body, parts[1], Anchor(parts[2], parts[1]))
                               ELSE body,
                               Tail(links))

\* lines 94-98: each entry of exactly two parts replaces its bare text
RECURSIVE ReplaceLinks(_, _)
ReplaceLinks(body, links) ==
    IF links = <<>> THEN body
    ELSE LET parts == Split(Head(links), "|") IN
         ReplaceLinks(IF Len(parts) = 2
                      THEN Replace(body, parts[1], Anchor(parts[2], parts[1]))
                      ELSE body,
                      Tail(links))

process_links(email_body, link_texts) ==
    IF notna(link_texts)
    THEN ReplaceLinks(LinkSub(email_body), Map(Strip, Split(link_texts.v, ",")))
    ELSE LinkSub(email_body)

BR == <<"<", "b", "r", ">">>

\* end of the longest run of whitespace starting at p (p - 1 when s[p] is none)
WhitespaceEnd(s, p) == Min({q \in p..Len(s) : s[q] \notin Whitespace} \cup {Len(s) + 1}) - 1

\* the last newline of s[lo..hi] (0 when none)
LastNewline(s, lo, hi) == Max({q \in lo..hi : s[q] = "\n"} \cup {0})

\* re.sub(r'\n\s*\n', '<br><br>', s) from position p on, the search resuming at start:
\* \s* is greedy and backtracks to the last newline of the run
RECURSIVE BlankLineSub(_, _, _)
BlankLineSub(s, p, start) ==
    LET nl == Find(s, <<"\n">>, start) IN
    IF nl = 0 THEN SubSeq(s, p, Len(s))
    ELSE LET last == LastNewline(s, nl + 1, WhitespaceEnd(s, nl + 1)) IN
         IF last = 0 THEN BlankLineSub(s, p, nl + 1)
         ELSE SubSeq(s, p, nl - 1) \o BR \o BR \o BlankLineSub(s, last + 1, last + 1)

\* line 135 alone
LineBreaksSingleOnly(email_body) == Replace(email_body, <<"\n">>, BR)

\* lines 134-135
LineBreaks(email_body) == Replace(BlankLineSub(email_body, 1, 1), <<"\n">>, BR)

\* the character U+0060
Backtick == <<"U+0060">>

\* the replacements dict of lines 104-108, in insertion order
replacements == <<
    <<<<"s", "t", "o", "r", "e", "/", "n", "a", "m", "e">>,
      <<"{", "{", "f", "i", "r", "s", "t", "_", "n", "a", "m", "e", "}", "}">>>>,
    <<<<"n", "a", "m", "e">>,
      <<"{", "{", "f", "i", "r", "s", "t", "_", "n", "a", "m", "e", "}", "}">>>>,
    <<<<"S", "P">>,
      <<"{", "{", "S", "P", "_", "S", "e", "l", "e", "c", "t", "i", "o", "n", "}", "}">>>>,
    <<<<"B", "r", "a", "n", "d">>,
      <<"{", "{", "m", "e", "r", "c", "h", "a", "n", "t", "_", "n", "a", "m", "e", "}", "}">>>>,
    <<<<"b", "r", "a", "n", "d">>,
      <<"{", "{", "m", "e", "r", "c", "h", "a", "n", "t", "_", "n", "a", "m", "e", "}", "}">>>>,
    <<<<"b", "r", "a", "n", "d", "U+2019", "s">>,
      <<"{", "{", "m", "e", "r", "c", "h", "a", "n", "t", "_", "n", "a", "m", "e", "}", "}", "'", "s">>>>,
    <<<<"c", "o", "u", "n", "t", "r", "y">>,
      <<"{", "{", "c", "o", "u", "n", "t", "r", "y", "}", "}">>>>,
    <<<<"f", "i", "r", "s", "t", " ", "n", "a", "m", "e">>,
      <<"{", "{", "f", "i", "r", "s", "t", "_", "n", "a", "m", "e", "}", "}">>>>,
    <<<<"A", "p", "p">>,
      <<"{", "{", "a", "p", "p", "}", "}">>>>,
    <<<<"c", "o", "u", "n", "t", "r", "y", "_", "n", "a", "m", "e">>,
      <<"{", "{", "c", "o", "u", "n", "t", "r", "y", "_", "n", "a", "m", "e", "}", "}">>>>
>>

\* the normalisation with "<" escaped as an HTML entity
NormalizeEscaping(cell) ==
    IF isna(cell) THEN <<>> ELSE Replace(PyStr(cell), <<"<">>, <<"&", "l", "t", ";">>)

\* str(x) without the pd.isna test: an empty cell becomes the text "nan"
NormalizeNoNaTest(cell) == IF isna(cell) THEN <<"n", "a", "n">> ELSE PyStr(cell)

\* lines 102-103: str(x) if not pd.isna(x) else ""
Normalize(cell) == IF ~isna(cell) THEN PyStr(cell) ELSE <<>>

\* the loop of lines 109-111 on one of the two texts
RECURSIVE ReplaceTokens(_, _)
ReplaceTokens(text, table) ==
    IF table = <<>> THEN text
    ELSE ReplaceTokens(Replace(text, Backtick \o Head(table)[1] \o Backtick, Head(table)[2]),
                       Tail(table))

convert_variables(email_body, subject) ==
    <<ReplaceTokens(Normalize(email_body), replacements),
      ReplaceTokens(Normalize(subject), replacements)>>

(***************************************************************************)
(* process_email_sequences                                                 *)
(***************************************************************************)
\* row[col]
Cell(row, col) == row[col]

\* row.get(col, default)
Get(row, col, default) == IF col \in file.cols THEN row[col] ELSE default

\* bold_texts.split / italic_texts.split / link_texts.split on a value that is no str
SplitRaises(aux) == notna(aux) /\ aux.t # "str"

\* the exception one iteration of the loop of lines 120-149 raises ("none" when none)
RowError(row) ==
    IF "seq_number" \notin file.cols THEN "KeyError"
    ELSE IF ~IntCoercible(Cell(row, "seq_number")) THEN "ValueError"
    ELSE IF ~IntCoercible(Get(row, "seq_delay_details", IntCell(0))) THEN "ValueError"
    ELSE IF SplitRaises(Get(row, "bold_texts", StrCell(<<>>))) THEN "AttributeError"
    ELSE IF SplitRaises(Get(row, "italic_texts", StrCell(<<>>))) THEN "AttributeError"
    ELSE IF SplitRaises(Get(row, "link_texts", StrCell(<<>>))) THEN "AttributeError"
    ELSE "none"

\* lines 130-135: the bodies the four stages can give for the cells of a row
RenderedBodies(body, subject, bold_texts, italic_texts, link_texts) ==
    {LineBreaks(process_links(italic, link_texts))
        : italic \in UNION {process_italic_text(bold, italic_texts)
                               : bold \in process_bold_text(convert_variables(body, subject)[1],
                                                            bold_texts)}}

\* AddVariant with the delay overwritten by every row of the step
AddVariantLastWins(dict, seq_number, seq_delay, variant) ==
    IF \E k \in 1..Len(dict) : dict[k].seq_number = seq_number
    THEN [k \in 1..Len(dict) |->
            IF dict[k].seq_number = seq_number
            THEN [dict[k] EXCEPT !.seq_variants = Append(@, variant),
                                 !.delay_in_days = seq_delay]
            ELSE dict[k]]
    ELSE Append(dict, [seq_number |-> seq_number,
                       delay_in_days |-> seq_delay,
                       seq_variants |-> <<variant>>])

\* lines 137-149: the step is created on the first row of its seq_number, then appended to
AddVariant(dict, seq_number, seq_delay, variant) ==
    IF \E k \in 1..Len(dict) : dict[k].seq_number = seq_number
    THEN [k \in 1..Len(dict) |->
            IF dict[k].seq_number = seq_number
            THEN [dict[k] EXCEPT !.seq_variants = Append(@, variant)]
            ELSE dict[k]]
    ELSE Append(dict, [seq_number |-> seq_number,
                       delay_in_days |-> seq_delay,
                       seq_variants |-> <<variant>>])

\* an except clause that returns the steps built so far
ExceptReturnPartial(dict) == dict

\* lines 153-155: what the except clause returns
ExceptReturn(dict) == <<>>

NoLocals == [seq_number |-> 0, seq_delay |-> 0, subject |-> <<>>, cv_body |-> <<>>,
             bold_body |-> <<>>, italic_body |-> <<>>, link_body |-> <<>>, email_body |-> <<>>]

\* line 117 raises: the workbook cannot be read
ReadRaises ==
    /\ cstate = "running"
    /\ ~file.readable
    /\ raised' = "read_excel"
    /\ payload' = ExceptReturn(sequences_dict)
    /\ cstate' = "returned"
    /\ UNCHANGED <<excel, file, i, sequences_dict, loc, launch_vars>>

\* one iteration of the loop of lines 120-149 that completes
ProcessRow ==
    /\ cstate = "running"
    /\ file.readable
    /\ i < Len(file.rows)
    /\ LET row == file.rows[i + 1]
           cv == convert_variables(Get(row, "email_body", StrCell(<<>>)),
                                   Get(row, "subject", StrCell(<<>>)))
       IN /\ RowError(row) = "none"
          /\ \E bold \in process_bold_text(cv[1], Get(row, "bold_texts", StrCell(<<>>))) :
             \E italic \in process_italic_text(bold, Get(row, "italic_texts", StrCell(<<>>))) :
                LET link == process_links(italic, Get(row, "link_texts", StrCell(<<>>)))
                    seq_number == PyInt(Cell(row, "seq_number"))
                    seq_delay == PyInt(Get(row, "seq_delay_details", IntCell(0)))
                    variant == [subject |-> cv[2],
                                email_body |-> LineBreaks(link),
                                variant_label |-> Get(row, "variant_label", StrCell(<<>>)),
                                variant_distribution_percentage |-> 100]
                IN /\ loc' = [seq_number |-> seq_number, seq_delay |-> seq_delay,
                              subject |-> cv[2], cv_body |-> cv[1], bold_body |-> bold,
                              italic_body |-> italic, link_body |-> link,
                              email_body |-> LineBreaks(link)]
                   /\ sequences_dict' = AddVariant(sequences_dict, seq_number, seq_delay, variant)
    /\ i' = i + 1
    /\ UNCHANGED <<excel, file, cstate, raised, payload, launch_vars>>

\* an iteration raises: the except clause of lines 153-155 returns
RowRaises ==
    /\ cstate = "running"
    /\ file.readable
    /\ i < Len(file.rows)
    /\ RowError(file.rows[i + 1]) # "none"
    /\ raised' = RowError(file.rows[i + 1])
    /\ payload' = ExceptReturn(sequences_dict)
    /\ cstate' = "returned"
    /\ UNCHANGED <<excel, file, i, sequences_dict, loc, launch_vars>>

\* line 151: return list(sequences_dict.values())
Return ==
    /\ cstate = "running"
    /\ file.readable
    /\ i = Len(file.rows)
    /\ payload' = sequences_dict
    /\ cstate' = "returned"
    /\ UNCHANGED <<excel, file, i, sequences_dict, loc, raised, launch_vars>>

NextCompile == ReadRaises \/ ProcessRow \/ RowRaises \/ Return

(***************************************************************************)
(* The workbooks the compiler is run on                                    *)
(***************************************************************************)
MaxRows == 3

MaxVarSegs == 2

MaxAdjSegs == 3

MaxEmphSegs == 3

MaxBlankSegs == 1

MaxLineSegs == 6

MaxLinkSegs == 3

MaxRoundSegs == 2

MaxOverlapSegs == 4

MaxSPs == 2

MaxPages == 1

AllCols == {"seq_number", "seq_delay_details", "variant_label", "subject", "email_body",
            "bold_texts", "italic_texts", "link_texts"}

Row(seq, delay, label, subject, body, bold, italic, link) ==
    [seq_number |-> seq, seq_delay_details |-> delay, variant_label |-> label,
     subject |-> subject, email_body |-> body, bold_texts |-> bold,
     italic_texts |-> italic, link_texts |-> link]

Workbook(cols, rows) == [readable |-> TRUE, cols |-> cols, rows |-> rows]

Unreadable == [readable |-> FALSE, cols |-> {}, rows |-> <<>>]

SeqsUpTo(S, n) == UNION {[1..k -> S] : k \in 0..n}

\* seq_number cells: 1, 2, 1.5 and the text "x"
SeqCells == {IntCell(1), IntCell(2), FloatCell(3), StrCell(<<"x">>)}

\* seq_delay_details cells: 3, 7 and the empty cell
DelayCells == {IntCell(3), IntCell(7), NaN}

Hi == StrCell(<<"h", "i">>)

\* workbooks of up to MaxRows rows that differ in step number and delay; row k is labelled k
AggWorkbooks ==
    {Workbook(AllCols,
              [k \in DOMAIN cells |->
                  Row(cells[k][1], cells[k][2], StrCell(NatToStr(k)), Hi, Hi, NaN, NaN, NaN)])
        : cells \in SeqsUpTo(SeqCells \X DelayCells, MaxRows)}

\* seq_number cells that are no positive integer: 0, -1, 1.5, the text "x", the empty cell
OddSeqCells == {IntCell(0), IntCell(-1), FloatCell(3), StrCell(<<"x">>), NaN}

\* workbooks without a seq_delay_details column, and one without a seq_number column
ShortWorkbooks ==
    {Workbook(AllCols \ {"seq_delay_details"},
              [k \in DOMAIN cells |->
                  Row(cells[k], NaN, StrCell(NatToStr(k)), Hi, Hi, NaN, NaN, NaN)])
        : cells \in SeqsUpTo(SeqCells \cup OddSeqCells, MaxRows)}
    \cup {Workbook(AllCols \ {"seq_number"},
                   <<Row(NaN, IntCell(3), StrCell(NatToStr(1)), Hi, Hi, NaN, NaN, NaN)>>)}

Tok(word) == Backtick \o word \o Backtick

Word_name == <<"n", "a", "m", "e">>

Word_SP == <<"S", "P">>

\* every token of the table in backticks, two unrecognized tokens, and bare words
VarSegments ==
    {Tok(replacements[k][1]) : k \in DOMAIN replacements}
    \cup {Tok(<<"x">>), Tok(<<"N", "a", "m", "e">>), Word_name, Word_SP, <<" ">>}

\* fewer segments, for longer texts
AdjSegments == {Tok(Word_SP), Tok(Word_name), Tok(<<"x">>), Word_name, Word_SP}

VarTexts ==
    {Join(segs) : segs \in SeqsUpTo(VarSegments, MaxVarSegs)}
    \cup {Join(segs) : segs \in SeqsUpTo(AdjSegments, MaxAdjSegs)}

\* subject and body cells that hold no str
OtherCells == {NaN, IntCell(5), IntCell(-12), FloatCell(5)}

\* one-row workbooks for convert_variables: the same text as subject and body, or
\* cells that hold no str
VarWorkbooks ==
    {Workbook(AllCols, <<Row(IntCell(1), IntCell(3), StrCell(<<"A">>),
                             StrCell(t), StrCell(t), NaN, NaN, NaN)>>) : t \in VarTexts}
    \cup {Workbook(AllCols, <<Row(IntCell(1), IntCell(3), StrCell(<<"A">>),
                                  c[1], c[2], NaN, NaN, NaN)>>)
            : c \in (OtherCells \cup {Hi}) \X (OtherCells \cup {Hi})}

EmphSegments ==
    {<<"*", "*", "a", "*", "*">>, <<"*", "b", "*">>, <<"a">>, <<" ">>, <<"*">>, <<"*", "*">>}

EmphTexts == {Join(segs) : segs \in SeqsUpTo(EmphSegments, MaxEmphSegs)}

\* auxiliary lists that are supplied: the pairs (bold_texts, italic_texts)
AuxPairs ==
    {<<NaN, NaN>>,
     <<StrCell(<<"a">>), NaN>>,
     <<NaN, StrCell(<<"b">>)>>,
     <<StrCell(<<"a", ",", " ", "b">>), StrCell(<<"a">>)>>,
     <<StrCell(<<"*">>), StrCell(<<"a", "*">>)>>,
     <<IntCell(5), NaN>>,
     <<NaN, FloatCell(5)>>}

\* blank auxiliary lists: an empty string or white space in one or in both cells
BlankPairs ==
    {<<StrCell(<<>>), NaN>>,
     <<NaN, StrCell(<<>>)>>,
     <<StrCell(<<" ">>), NaN>>,
     <<NaN, StrCell(<<" ">>)>>}

BothBlank == {<<StrCell(<<>>), StrCell(<<" ">>)>>}

EmphRow(t, aux) ==
    Row(IntCell(1), IntCell(3), StrCell(<<"A">>), Hi, StrCell(t), aux[1], aux[2], NaN)

\* one-row workbooks for the emphasis passes; the last two sets have no bold_texts /
\* italic_texts column at all
EmphWorkbooks ==
    {Workbook(AllCols, <<EmphRow(t, aux)>>) : t \in EmphTexts, aux \in AuxPairs \cup BlankPairs}
    \cup {Workbook(AllCols, <<EmphRow(Join(segs), aux)>>)
            : segs \in SeqsUpTo(EmphSegments, MaxBlankSegs), aux \in BothBlank}
    \cup {Workbook(AllCols \ {col}, <<EmphRow(t, <<NaN, NaN>>)>>)
            : t \in EmphTexts, col \in {"bold_texts", "italic_texts"}}
    \cup {Workbook(AllCols \ {"bold_texts", "italic_texts"}, <<EmphRow(Join(segs), <<NaN, NaN>>)>>)
            : segs \in SeqsUpTo(EmphSegments, MaxBlankSegs)}

LineSegments == {<<"a">>, <<" ">>, <<"\n">>}

LineTexts == {Join(segs) : segs \in SeqsUpTo(LineSegments, MaxLineSegs)}

\* one-row workbooks for the line-break rewriting
LineWorkbooks ==
    {Workbook(AllCols, <<Row(IntCell(1), IntCell(3), StrCell(<<"A">>),
                             Hi, StrCell(t), NaN, NaN, NaN)>>) : t \in LineTexts}

\* a markdown link, bare words and stray brackets
LinkSegments ==
    {<<"[", "S", "]", "(", "u", ")">>, <<"S">>, <<"x">>, <<" ">>, <<"[">>, <<")">>}

LinkTexts == {Join(segs) : segs \in SeqsUpTo(LinkSegments, MaxLinkSegs)}

\* link_texts cells: empty, blank, entries of one, two and three parts, an empty text
LinkCells ==
    {NaN,
     StrCell(<<>>),
     StrCell(<<" ">>),
     StrCell(<<"S">>),
     StrCell(<<"S", "|", "u", "|", "v">>),
     StrCell(<<"S", "|", "v">>),
     StrCell(<<"x", ",", " ", "S", "|", "v">>),
     StrCell(<<"S", "|", "v", ",", "x", "|", "w", "|", "w">>),
     StrCell(<<"x", "|", "w">>),
     StrCell(<<"|", "v">>)}

LinkRow(t, link) == Row(IntCell(1), IntCell(3), StrCell(<<"A">>), Hi, StrCell(t), NaN, NaN, link)

\* one-row workbooks for process_links; the last set has no link_texts column
LinkWorkbooks ==
    {Workbook(AllCols, <<LinkRow(t, link)>>) : t \in LinkTexts, link \in LinkCells}
    \cup {Workbook(AllCols \ {"link_texts"}, <<LinkRow(t, NaN)>>) : t \in LinkTexts}

RoundSegments ==
    {<<"*", "*", "a", "*", "*">>, <<"*", "b", "*">>, <<"a">>, <<"S">>, <<"\n">>,
     <<"[", "S", "]", "(", "u", ")">>}

RoundTexts == {Join(segs) : segs \in SeqsUpTo(RoundSegments, MaxRoundSegs)}

\* the cells <<bold_texts, italic_texts, link_texts>> of a row
RoundAux ==
    {<<NaN, NaN, NaN>>,
     <<StrCell(<<"a">>), NaN, NaN>>,
     <<NaN, StrCell(<<"b">>), NaN>>,
     <<NaN, NaN, StrCell(<<"S", "|", "v">>)>>,
     <<StrCell(<<>>), NaN, NaN>>}

RoundRow(body, aux) ==
    Row(IntCell(1), IntCell(3), StrCell(<<"A">>), Hi, StrCell(body), aux[1], aux[2], aux[3])

\* two-row workbooks whose second body is a rendering of the first, the second row with
\* the lists of the first or with none
RoundTripWorkbooks ==
    UNION {{Workbook(AllCols, <<RoundRow(t, aux), RoundRow(r, again)>>)
               : r \in RenderedBodies(StrCell(t), Hi, aux[1], aux[2], aux[3]),
                 again \in {aux, <<NaN, NaN, NaN>>}}
             : t \in RoundTexts, aux \in RoundAux}

\* delimited terms and pieces that share a delimiter with their neighbour
OverlapSegments ==
    {<<"*", "*", "a", "*", "*">>, <<" ", "x", " ">>, <<"*", "*", " ", "y", " ", "*", "*">>,
     <<"a", "*", "*">>, <<"*", "a", "*">>, <<"*", " ", "y", " ", "*">>, <<"a", "*">>}

OverlapTexts == {Join(segs) : segs \in SeqsUpTo(OverlapSegments, MaxOverlapSegs)}

\* one-row workbooks for the emphasis passes on overlapping delimited terms
OverlapWorkbooks == {Workbook(AllCols, <<EmphRow(t, <<NaN, NaN>>)>>) : t \in OverlapTexts}

NoForm == [sp_names |-> <<>>, complete |-> FALSE, leads_readable |-> FALSE, leads |-> {},
           cache |-> "miss", accounts |-> "ok", with_accounts |-> {}]

\* process_excel before it is called: the value of excel while the app runs
NoExcel == [df |-> <<>>, titles |-> <<>>, results |-> <<>>, i |-> 0, classified |-> <<>>,
            t |-> 0, at |-> "off", files |-> <<>>]

InitCompiler ==
    /\ cstate = "running"
    /\ i = 0
    /\ sequences_dict = <<>>
    /\ loc = NoLocals
    /\ raised = "none"
    /\ payload = <<>>

\* process_email_sequences called on a workbook, outside a launch
Init ==
    /\ \/ file = Unreadable
       \/ file \in AggWorkbooks
       \/ file \in ShortWorkbooks
       \/ file \in VarWorkbooks
       \/ file \in EmphWorkbooks
       \/ file \in LineWorkbooks
       \/ file \in LinkWorkbooks
       \/ file \in RoundTripWorkbooks
       \/ file \in OverlapWorkbooks
    /\ InitCompiler
    /\ form = NoForm
    /\ pc = [at |-> "off", k |-> 0, why |-> "none"]
    /\ sps = <<>>
    /\ campaign_ids = <<>>
    /\ api = <<>>
    /\ excel = NoExcel

Spec == Init /\ [][NextCompile]_vars

(***************************************************************************)
(* Main Execution Logic: the launch block                                  *)
(***************************************************************************)
At(step, k) == [at |-> step, k |-> k, why |-> "none"]

\* st.stop(): the script run ends
Stopped(why) == [at |-> "stopped", k |-> 0, why |-> why]

\* the except clauses of lines 481-486
Failed(why) == [at |-> "failed", k |-> 0, why |-> why]

Statuses == {200, 500}

Call(name, sp, status) == [call |-> name, sp |-> sp, status |-> status]

NoSp == <<>>

HasDuplicates(names) == \E a, b \in DOMAIN names : a # b /\ names[a] = names[b]

\* lines 357-366: the button and the input validation
ClickLaunch ==
    /\ pc.at = "button"
    /\ pc' = IF ~form.complete THEN Stopped("missing_input")
             ELSE IF HasDuplicates(form.sp_names) THEN Stopped("duplicate_sp_names")
             ELSE At("step1", 0)
    /\ UNCHANGED <<excel, file, compiler_vars, form, sps, campaign_ids, api>>

\* lines 369-388, Step 1: the SPs that have leads
Step1Leads ==
    /\ pc.at = "step1"
    /\ IF ~form.leads_readable
       THEN /\ pc' = Failed("Exception")
            /\ sps' = sps
       ELSE /\ sps' = SelectSeq(form.sp_names, LAMBDA sp : sp \in form.leads)
            /\ pc' = IF sps' = <<>> THEN Stopped("no_leads") ELSE At("fetch", 0)
    /\ UNCHANGED <<excel, file, compiler_vars, form, campaign_ids, api>>

\* lines 161-178, fetch_all_accounts: one GET, unless the cached value is returned
FetchPage ==
    /\ pc.at = "fetch"
    /\ form.cache = "miss"
    /\ \E got \in {"page", "empty", "error"} :
          /\ got = "page" => pc.k < MaxPages
          /\ api' = Append(api, Call("fetch_all_accounts", NoSp,
                                     IF got = "error" THEN 500 ELSE 200))
          /\ pc' = CASE got = "page" -> At("fetch", pc.k + 1)
                     [] got = "empty" -> At("accounts", pc.k)
                     [] got = "error" -> Failed("RequestException")
    /\ UNCHANGED <<excel, file, compiler_vars, form, sps, campaign_ids>>

FetchCached ==
    /\ pc.at = "fetch"
    /\ form.cache # "miss"
    /\ pc' = At("accounts", IF form.cache = "accounts" THEN 1 ELSE 0)
    /\ UNCHANGED <<excel, file, compiler_vars, form, sps, campaign_ids, api>>

\* lines 395-414: the accounts fetched (pc.k pages of them) and the accounts workbook
Step2Accounts ==
    /\ pc.at = "accounts"
    /\ pc' = IF pc.k = 0 THEN Stopped("no_accounts")
             ELSE IF form.accounts = "unreadable" THEN Failed("Exception")
             ELSE IF form.accounts = "no_column" THEN Stopped("no_account_column")
             ELSE IF form.accounts = "no_match" THEN Stopped("no_matching_accounts")
             ELSE At("create", 1)
    /\ UNCHANGED <<excel, file, compiler_vars, form, sps, campaign_ids, api>>

\* lines 416-421 and 180-188: campaign_creation for the k-th SP
CreateCampaign ==
    /\ pc.at = "create"
    /\ \E status \in Statuses :
          /\ api' = Append(api, Call("campaign_creation", sps[pc.k], status))
          /\ IF status = 200
             THEN /\ campaign_ids' = Append(campaign_ids, sps[pc.k])
                  /\ pc' = IF pc.k < Len(sps) THEN At("create", pc.k + 1) ELSE At("add_leads", 1)
             ELSE /\ campaign_ids' = campaign_ids
                  /\ pc' = Failed("RequestException")
    /\ UNCHANGED <<excel, file, compiler_vars, form, sps>>

\* lines 426-433 and 200-214, Step 3: add_leads_to_campaign
AddLeads ==
    /\ pc.at = "add_leads"
    /\ \E status \in Statuses :
          /\ api' = Append(api, Call("add_leads_to_campaign", campaign_ids[pc.k], status))
          /\ pc' = IF status # 200 THEN Failed("RequestException")
                   ELSE IF pc.k < Len(campaign_ids) THEN At("add_leads", pc.k + 1)
                   ELSE At("compile", 0)
    /\ UNCHANGED <<excel, file, compiler_vars, form, sps, campaign_ids>>

\* line 438: process_email_sequences is called
Step4Compile ==
    /\ pc.at = "compile"
    /\ cstate = "idle"
    /\ cstate' = "running"
    /\ pc' = At("compiling", 0)
    /\ UNCHANGED <<excel, file, i, sequences_dict, loc, raised, payload, form, sps, campaign_ids, api>>

\* lines 439-441: an empty payload stops the run
Step4Check ==
    /\ pc.at = "compiling"
    /\ cstate = "returned"
    /\ pc' = IF payload = <<>> THEN Stopped("no_sequences") ELSE At("add_sequence", 1)
    /\ UNCHANGED <<excel, file, compiler_vars, form, sps, campaign_ids, api>>

\* lines 442-445 and 216-221: add_email_sequence
AddSequence ==
    /\ pc.at = "add_sequence"
    /\ \E status \in Statuses :
          /\ api' = Append(api, Call("add_email_sequence", campaign_ids[pc.k], status))
          /\ pc' = IF status # 200 THEN Failed("RequestException")
                   ELSE IF pc.k < Len(campaign_ids) THEN At("add_sequence", pc.k + 1)
                   ELSE At("select_accounts", 1)
    /\ UNCHANGED <<excel, file, compiler_vars, form, sps, campaign_ids>>

\* lines 452-458 and 238-245, Step 5: account_selection, skipped for an SP without accounts
SelectAccounts ==
    /\ pc.at = "select_accounts"
    /\ IF campaign_ids[pc.k] \in form.with_accounts
       THEN \E status \in Statuses :
               /\ api' = Append(api, Call("account_selection", campaign_ids[pc.k], status))
               /\ pc' = IF status = 200 THEN At("unsub", pc.k) ELSE Failed("RequestException")
       ELSE /\ api' = api
            /\ pc' = At("unsub", pc.k)
    /\ UNCHANGED <<excel, file, compiler_vars, form, sps, campaign_ids>>

\* add_unsub without the status test of lines 256-257
AddUnsubUnchecked ==
    /\ pc.at = "unsub"
    /\ \E status \in Statuses :
          /\ api' = Append(api, Call("add_unsub", campaign_ids[pc.k], status))
          /\ pc' = At("schedule", pc.k)
    /\ UNCHANGED <<excel, file, compiler_vars, form, sps, campaign_ids>>

\* lines 461-463 and 247-257: add_unsub
AddUnsub ==
    /\ pc.at = "unsub"
    /\ \E status \in Statuses :
          /\ api' = Append(api, Call("add_unsub", campaign_ids[pc.k], status))
          /\ pc' = IF status = 200 THEN At("schedule", pc.k) ELSE Failed("RequestException")
    /\ UNCHANGED <<excel, file, compiler_vars, form, sps, campaign_ids>>

\* lines 466-477 and 259-264: campaign_scheduling, then the next campaign
Schedule ==
    /\ pc.at = "schedule"
    /\ \E status \in Statuses :
          /\ api' = Append(api, Call("campaign_scheduling", campaign_ids[pc.k], status))
          /\ pc' = IF status # 200 THEN Failed("RequestException")
                   ELSE IF pc.k < Len(campaign_ids) THEN At("select_accounts", pc.k + 1)
                   ELSE At("done", 0)
    /\ UNCHANGED <<excel, file, compiler_vars, form, sps, campaign_ids>>

NextLaunch ==
    \/ ClickLaunch
    \/ Step1Leads
    \/ FetchPage
    \/ FetchCached
    \/ Step2Accounts
    \/ CreateCampaign
    \/ AddLeads
    \/ Step4Compile
    \/ ReadRaises
    \/ ProcessRow
    \/ RowRaises
    \/ Return
    \/ Step4Check
    \/ AddSequence
    \/ SelectAccounts
    \/ AddUnsub
    \/ Schedule

SpName(k) == <<"S", "P", " ">> \o NatToStr(k)

SpNames(n) == [k \in 1..n |-> SpName(k)]

Forms ==
    {[sp_names |-> names, complete |-> TRUE, leads_readable |-> TRUE, leads |-> leads,
      cache |-> cache, accounts |-> accounts, with_accounts |-> with]
        : names \in {SpNames(n) : n \in 1..MaxSPs},
          leads \in SUBSET Range(SpNames(MaxSPs)),
          cache \in {"miss", "accounts", "empty"},
          accounts \in {"ok", "unreadable", "no_column", "no_match"},
          with \in SUBSET Range(SpNames(MaxSPs))}
    \cup {[sp_names |-> names, complete |-> complete, leads_readable |-> readable,
           leads |-> Range(names), cache |-> "miss", accounts |-> "ok",
           with_accounts |-> Range(names)]
            : names \in {SpNames(1), <<SpName(1), SpName(1)>>},
              complete \in BOOLEAN, readable \in BOOLEAN}

\* the sequences workbooks of a launch: two steps, a malformed second row, no rows, unreadable
LaunchWorkbooks ==
    {Workbook(AllCols, <<Row(IntCell(1), IntCell(3), StrCell(<<"A">>), Hi, Hi, NaN, NaN, NaN),
                         Row(IntCell(2), IntCell(7), StrCell(<<"B">>), Hi, Hi, NaN, NaN, NaN)>>),
     Workbook(AllCols, <<Row(IntCell(1), IntCell(3), StrCell(<<"A">>), Hi, Hi, NaN, NaN, NaN),
                         Row(StrCell(<<"x">>), IntCell(7), StrCell(<<"B">>), Hi, Hi, NaN, NaN, NaN)>>),
     Workbook(AllCols, <<>>),
     Unreadable}

InitLaunch ==
    /\ file \in LaunchWorkbooks
    /\ form \in Forms
    /\ cstate = "idle"
    /\ i = 0
    /\ sequences_dict = <<>>
    /\ loc = NoLocals
    /\ raised = "none"
    /\ payload = <<>>
    /\ pc = At("button", 0)
    /\ sps = <<>>
    /\ campaign_ids = <<>>
    /\ api = <<>>
    /\ excel = NoExcel

SpecLaunch == InitLaunch /\ [][NextLaunch]_vars

(***************************************************************************)
(* The title classifier's batch loop (src/extract_return_app.py)           *)
(*                                                                         *)
(* The title column is a sequence of title ids, NoTitle standing for an    *)
(* empty cell.  excel holds process_excel's locals:                        *)
(*   df          the title column of the workbook read at line 281         *)
(*   titles      the distinct non-empty titles, in order of appearance     *)
(*   results     the dict of line 283, a function on the recorded titles   *)
(*   i           the offset of the current batch (range(0, len, batch))    *)
(*   classified  what classify_titles returned for the current batch       *)
(*   t           the titles of the current batch recorded so far           *)
(*   at          "loop" (head of the batch loop), "record" (inside the     *)
(*               inner loop), "sleep" (line 315), "done" (returned),       *)
(*               "exited" (exit(0) in the handler), "crashed" (an          *)
(*               exception of the API call left process_excel)             *)
(*   files       the files save_results has written, in order              *)
(***************************************************************************)
\* an empty cell of the title column (dropped by dropna at line 285)
NoTitle == 0

\* the title ids a workbook may hold
MaxTitles == 3

\* the longest title column
MaxDfRows == 4

\* batch_size of line 284, scaled down
batch_size == 2

\* the default entry of lines 311, 323 and 324
NotRelevant == [tier |-> "Not Relevant", relevant |-> "No"]

\* the entries the model may return for a title
Classifications == {[tier |-> "Tier 1", relevant |-> "Yes"], NotRelevant}

\* df[title_col].dropna().unique().tolist() of line 285
Titles(df) ==
    LET kept == SelectSeq(df, LAMBDA x : x # NoTitle)
        first == {k \in 1..Len(kept) : \A j \in 1..(k - 1) : kept[j] # kept[k]}
        Nth(n) == CHOOSE k \in first : Cardinality({j \in first : j <= k}) = n
    IN  [n \in 1..Cardinality(first) |-> kept[Nth(n)]]

\* titles[i:i+batch_size] of line 300
Batch == SubSeq(excel.titles, excel.i + 1, Min({excel.i + batch_size, Len(excel.titles)}))

\* d.get(x, default) on a dict modelled as a function
DictGet(d, x, default) == IF x \in DOMAIN d THEN d[x] ELSE default

\* d[x] = v on a dict modelled as a function
Put(d, x, v) == [y \in DOMAIN d \cup {x} |-> IF y = x THEN v ELSE d[y]]

\* the Tier and Relevant columns and the file name save_results writes (lines 321-341)
save_results(df, results, partial) ==
    [partial  |-> partial,
     Tier     |-> [k \in 1..Len(df) |-> DictGet(results, df[k], NotRelevant).tier],
     Relevant |-> [k \in 1..Len(df) |-> DictGet(results, df[k], NotRelevant).relevant]]

\* the dicts classify_titles may return for a batch: entries for any of its
\* titles, none when the answer does not parse (lines 268-277)
Answers(batch) == UNION {[S -> Classifications] : S \in SUBSET Range(batch)}

\* lines 299-301: classify_titles returns
Classify ==
    /\ excel.at = "loop"
    /\ excel.i < Len(excel.titles)
    /\ \E classified \in Answers(Batch) :
          excel' = [excel EXCEPT !.classified = classified, !.t = 0, !.at = "record"]
    /\ UNCHANGED <<file, compiler_vars, launch_vars>>

\* line 266 inside classify_titles: the API call raises, nothing catches it
ClassifyRaises ==
    /\ excel.at = "loop"
    /\ excel.i < Len(excel.titles)
    /\ excel' = [excel EXCEPT !.at = "crashed"]
    /\ UNCHANGED <<file, compiler_vars, launch_vars>>

\* lines 304-311: one iteration of the inner loop
Record ==
    /\ excel.at = "record"
    /\ LET x == Batch[excel.t + 1]
       IN  excel' = [excel EXCEPT
                !.results = Put(excel.results, x, DictGet(excel.classified, x, NotRelevant)),
                !.t = excel.t + 1,
                !.at = IF excel.t + 1 = Len(Batch) THEN "sleep" ELSE "record"]
    /\ UNCHANGED <<file, compiler_vars, launch_vars>>

\* lines 313-315 and the next step of range(): the batch is finished
Sleep ==
    /\ excel.at = "sleep"
    /\ excel' = [excel EXCEPT !.i = excel.i + batch_size, !.t = 0, !.at = "loop"]
    /\ UNCHANGED <<file, compiler_vars, launch_vars>>

\* line 318: the loop is exhausted, the final file is written
FinalSave ==
    /\ excel.at = "loop"
    /\ excel.i >= Len(excel.titles)
    /\ excel' = [excel EXCEPT
            !.files = Append(excel.files, save_results(excel.df, excel.results, FALSE)),
            !.at = "done"]
    /\ UNCHANGED <<file, compiler_vars, launch_vars>>

\* a variant of the handler that saves once and returns without exit(0)
save_partial_returns ==
    /\ excel.at \in {"loop", "record", "sleep"}
    /\ excel.files = <<>>
    /\ excel' = [excel EXCEPT
            !.files = Append(excel.files, save_results(excel.df, excel.results, TRUE))]
    /\ UNCHANGED <<file, compiler_vars, launch_vars>>

\* lines 291-297: SIGINT or SIGTERM arrives while the loop runs; the handler
\* saves and exits
save_partial ==
    /\ excel.at \in {"loop", "record", "sleep"}
    /\ excel' = [excel EXCEPT
            !.files = Append(excel.files, save_results(excel.df, excel.results, TRUE)),
            !.at = "exited"]
    /\ UNCHANGED <<file, compiler_vars, launch_vars>>

NextExcel == Classify \/ ClassifyRaises \/ Record \/ Sleep \/ FinalSave \/ save_partial

\* the workbooks process_excel may read
TitleColumns == SeqsUpTo(0..MaxTitles, MaxDfRows)

\* lines 280-297: the workbook is read and the handlers are installed
InitExcel ==
    /\ \E df \in TitleColumns :
          excel = [df |-> df, titles |-> Titles(df), results |-> <<>>, i |-> 0,
                   classified |-> <<>>, t |-> 0, at |-> "loop", files |-> <<>>]
    /\ file = Unreadable
    /\ cstate = "idle"
    /\ i = 0
    /\ sequences_dict = <<>>
    /\ loc = NoLocals
    /\ raised = "none"
    /\ payload = <<>>
    /\ form = NoForm
    /\ pc = [at |-> "off", k |-> 0, why |-> "none"]
    /\ sps = <<>>
    /\ campaign_ids = <<>>
    /\ api = <<>>

SpecExcel == InitExcel /\ [][NextExcel]_vars

(***************************************************************************)
(* Properties of the sequence aggregation                                  *)
(***************************************************************************)
\* the step number and the delay the code reads from the k-th row
RowKey(k) == PyInt(Cell(file.rows[k], "seq_number"))

RowDelay(k) == PyInt(Get(file.rows[k], "seq_delay_details", IntCell(0)))

RowIndexes == [k \in 1..Len(file.rows) |-> k]

\* the distinct elements of keys, in order of first occurrence
FirstEncounters(keys) ==
    LET firsts == SelectSeq([k \in DOMAIN keys |-> k],
                            LAMBDA k : \A j \in 1..(k - 1) : keys[j] # keys[k])
    IN [n \in DOMAIN firsts |-> keys[firsts[n]]]

\* the variant labels of the rows of step number n, in row order
LabelsOfStep(n) ==
    LET mine == SelectSeq(RowIndexes, LAMBDA k : RowKey(k) = n)
    IN [m \in DOMAIN mine |-> Get(file.rows[mine[m]], "variant_label", StrCell(<<>>))]

TextOrEmpty(cell) == cell.t \in {"str", "nan"}

\* every row has a step number int() accepts, and auxiliary lists that are text or empty
KeysCoercible ==
    /\ file.readable
    /\ "seq_number" \in file.cols
    /\ \A k \in DOMAIN file.rows :
          /\ IntCoercible(Cell(file.rows[k], "seq_number"))
          /\ TextOrEmpty(Get(file.rows[k], "bold_texts", NaN))
          /\ TextOrEmpty(Get(file.rows[k], "italic_texts", NaN))
          /\ TextOrEmpty(Get(file.rows[k], "link_texts", NaN))

\* C1: for rows whose seq_number is integer-coercible, the returned payload has exactly
\* one step per distinct seq_number, the steps are in order of first encounter, and the
\* variants of a step are the rows of that seq_number, each once, in row order.
C1_Aggregation ==
    (cstate = "returned" /\ KeysCoercible) =>
        /\ [k \in DOMAIN payload |-> payload[k].seq_number]
              = FirstEncounters([k \in DOMAIN file.rows |-> RowKey(k)])
        /\ \A k \in DOMAIN payload :
              [m \in DOMAIN payload[k].seq_variants |-> payload[k].seq_variants[m].variant_label]
                 = LabelsOfStep(payload[k].seq_number)

\* C2: at every point of the compile, and in the payload returned, the delay_in_days of a
\* step is the delay of the first row of its seq_number; later rows of the step, whatever
\* their delay, leave it unchanged.
C2_FirstRowWinsDelay ==
    \A k \in DOMAIN sequences_dict :
        LET step == sequences_dict[k]
            first == Min({r \in 1..i : RowKey(r) = step.seq_number})
        IN /\ step.delay_in_days = RowDelay(first)
           /\ (cstate = "returned" /\ raised = "none") => payload[k] = step

\* a step has taken a second row whose delay differs from the first row's
C2_Witness ==
    \E k \in DOMAIN sequences_dict :
        /\ Len(sequences_dict[k].seq_variants) >= 2
        /\ RowKey(i) = sequences_dict[k].seq_number
        /\ RowDelay(i) # sequences_dict[k].delay_in_days

\* the workbook has a row whose seq_number int() rejects
HasMalformedKey ==
    /\ file.readable
    /\ "seq_number" \in file.cols
    /\ \E k \in DOMAIN file.rows : ~IntCoercible(Cell(file.rows[k], "seq_number"))

\* C3: when some row's seq_number cannot be parsed as an integer, the compile fails and
\* returns zero steps, whatever rows precede or follow it.
C3_MalformedKeyFailsAll ==
    (cstate = "returned" /\ HasMalformedKey) => (raised # "none" /\ payload = <<>>)

\* the malformed row came after rows that had already built steps, and others follow it
C3_Witness ==
    /\ cstate = "returned"
    /\ HasMalformedKey
    /\ sequences_dict # <<>>
    /\ i + 1 < Len(file.rows)
    /\ ~IntCoercible(Cell(file.rows[i + 1], "seq_number"))

(***************************************************************************)
(* Properties of the launch block                                          *)
(***************************************************************************)
\* C4: the sequences workbook is compiled before any call to the campaign platform, so
\* a run that stops because the compile returned nothing has made no API call.
C4_CompileBeforeNetwork ==
    (pc.at = "stopped" /\ pc.why = "no_sequences") => api = <<>>

(***************************************************************************)
(* Properties of the text passes.  They read the locals of the row just    *)
(* processed, rows[i], and its cells.                                      *)
(***************************************************************************)
Processed == i >= 1 /\ cstate = "running"

BodyCell == Get(file.rows[i], "email_body", StrCell(<<>>))

SubjectCell == Get(file.rows[i], "subject", StrCell(<<>>))

\* an auxiliary list that is absent: no such column, or an empty cell
Absent(col) == col \notin file.cols \/ isna(file.rows[i][col])

\* an auxiliary list that is absent or blank: also an empty or white-space string
AbsentOrBlank(col) ==
    \/ Absent(col)
    \/ file.rows[i][col].t = "str" /\ Strip(file.rows[i][col].v) = <<>>

\* the emphasis passes run on the detected terms alone
DetectedOnly(body) ==
    UNION {process_italic_text(bold, NaN) : bold \in process_bold_text(body, NaN)}

\* C5: with absent or blank bold_texts and italic_texts (no column, an empty cell, an
\* empty or white-space string) the bold and italic passes give exactly what the
\* detected terms alone give, and put no tag anywhere else.
C5_BlankAuxIsEmptyList ==
    (Processed /\ AbsentOrBlank("bold_texts") /\ AbsentOrBlank("italic_texts")) =>
        loc.italic_body \in DetectedOnly(loc.cv_body)

TableKeys == {replacements[k][1] : k \in DOMAIN replacements}

TableValue(key) == replacements[CHOOSE k \in DOMAIN replacements : replacements[k][1] = key][2]

\* the backtick-delimited tokens of a text, pairing the backticks from the left
RECURSIVE TokensFrom(_, _)
TokensFrom(s, p) ==
    LET open == Find(s, Backtick, p)
        close == IF open = 0 THEN 0 ELSE Find(s, Backtick, open + 1)
    IN IF close = 0 THEN <<>>
       ELSE <<SubSeq(s, open + 1, close - 1)>> \o TokensFrom(s, close + 1)

Tokens(s) == TokensFrom(s, 1)

\* the text with each backtick-delimited token of the table replaced by its merge field
RECURSIVE SubstituteFrom(_, _)
SubstituteFrom(s, p) ==
    LET open == Find(s, Backtick, p)
        close == IF open = 0 THEN 0 ELSE Find(s, Backtick, open + 1)
    IN IF close = 0 THEN SubSeq(s, p, Len(s))
       ELSE LET token == SubSeq(s, open + 1, close - 1) IN
            SubSeq(s, p, open - 1)
            \o (IF token \in TableKeys THEN TableValue(token) ELSE SubSeq(s, open, close))
            \o SubstituteFrom(s, close + 1)

Substituted(s) == SubstituteFrom(s, 1)

\* a text whose backticks pair up, with only tokens of the table between them
OnlyRecognized(cell) ==
    /\ cell.t = "str"
    /\ Tokens(cell.v) # <<>>
    /\ Range(Tokens(cell.v)) \subseteq TableKeys
    /\ Cardinality({k \in DOMAIN cell.v : <<cell.v[k]>> = Backtick}) = 2 * Len(Tokens(cell.v))

\* a text whose backticks pair up, with no token of the table between them
OnlyUnrecognized(cell) ==
    /\ cell.t = "str"
    /\ Tokens(cell.v) # <<>>
    /\ Range(Tokens(cell.v)) \cap TableKeys = {}
    /\ Cardinality({k \in DOMAIN cell.v : <<cell.v[k]>> = Backtick}) = 2 * Len(Tokens(cell.v))

\* C6: every backtick-wrapped token of the table, in the subject and in the body, is
\* replaced by exactly its merge field, with no backtick left around it.
C6_TokensSubstituted ==
    Processed =>
        /\ OnlyRecognized(BodyCell) => loc.cv_body = Substituted(BodyCell.v)
        /\ OnlyRecognized(SubjectCell) => loc.subject = Substituted(SubjectCell.v)

\* C7: a backtick-delimited token that is not in the table is left as it is, backticks
\* included, also when such tokens stand on both sides of a recognized word.
C7_UnrecognizedUnchanged ==
    Processed =>
        /\ OnlyUnrecognized(BodyCell) => loc.cv_body = BodyCell.v
        /\ OnlyUnrecognized(SubjectCell) => loc.subject = SubjectCell.v

\* C8 as stated: a subject or body that is null or not a string becomes the empty string.
C8_NonStringBecomesEmpty ==
    Processed =>
        /\ BodyCell.t # "str" => loc.cv_body = <<>>
        /\ SubjectCell.t # "str" => loc.subject = <<>>

\* the decimal text of a number cell, read back: sign, integer digits and, for a float,
\* one fraction digit
ReadsBackAs(text, cell) ==
    LET parts == Split(text, ".")
        whole == StrCell(parts[1])
    IN /\ IsIntLiteral(parts[1])
       /\ (text[1] = "-") = (cell.v < 0)
       /\ IF cell.t = "int"
          THEN Len(parts) = 1 /\ PyInt(whole) = cell.v
          ELSE /\ Len(parts) = 2
               /\ parts[2] \in {<<"0">>, <<"5">>}
               /\ 2 * Abs(PyInt(whole)) + (IF parts[2] = <<"5">> THEN 1 ELSE 0) = Abs(cell.v)

NormalizedAs(text, cell) ==
    CASE cell.t = "nan" -> text = <<>>
      [] cell.t \in {"int", "float"} -> ReadsBackAs(text, cell)
      [] cell.t = "str" -> TRUE

\* every cell of the row but subject and body is one the loop accepts
OtherCellsFine(row) ==
    /\ file.readable
    /\ "seq_number" \in file.cols
    /\ IntCoercible(Cell(row, "seq_number"))
    /\ IntCoercible(Get(row, "seq_delay_details", IntCell(0)))
    /\ TextOrEmpty(Get(row, "bold_texts", NaN))
    /\ TextOrEmpty(Get(row, "italic_texts", NaN))
    /\ TextOrEmpty(Get(row, "link_texts", NaN))

\* C8, amended: a null subject or body becomes the empty string, one that holds a number
\* becomes the number's decimal text, and neither makes the compile raise.
C8_Normalized ==
    /\ Processed =>
          /\ NormalizedAs(loc.cv_body, BodyCell)
          /\ NormalizedAs(loc.subject, SubjectCell)
    /\ (cstate = "returned" /\ raised # "none" /\ file.readable) =>
          ~OtherCellsFine(file.rows[i + 1])

\* a row with an empty body cell and a number as subject has been processed
C8_Witness ==
    /\ Processed
    /\ BodyCell.t = "nan"
    /\ SubjectCell.t = "int"
    /\ loc.cv_body = <<>>
    /\ loc.subject # <<>>

IsPlain(c) == c \notin {"*", "\n"}

\* the end of the emphasis pair opening at p with delimiter d (0 when none opens there):
\* d, a non-empty term of plain characters, d
PairEnd(s, p, d) ==
    LET from == p + Len(d)
        stop == Min({q \in from..Len(s) : ~IsPlain(s[q])} \cup {Len(s) + 1})
    IN IF StartsWith(Drop(s, p - 1), d) /\ stop > from /\ StartsWith(Drop(s, stop - 1), d)
       THEN stop + Len(d) - 1
       ELSE 0

\* the body read as plain text and pairs, each pair apart from the next: the text with
\* every pair tagged, or <<"malformed">>
RECURSIVE TaggedFrom(_, _)
TaggedFrom(s, p) ==
    IF p > Len(s) THEN <<>>
    ELSE IF IsPlain(s[p]) \/ s[p] = "\n"
    THEN LET rest == TaggedFrom(s, p + 1) IN
         IF rest = <<"malformed">> THEN rest ELSE <<s[p]>> \o rest
    ELSE LET bold == PairEnd(s, p, <<"*", "*">>)
             italic == PairEnd(s, p, <<"*">>)
             end == IF bold # 0 THEN bold ELSE italic
             rest == TaggedFrom(s, end + 1)
         IN IF end = 0 \/ (end < Len(s) /\ s[end + 1] = "*") \/ rest = <<"malformed">>
            THEN <<"malformed">>
            ELSE (IF bold # 0
                  THEN StrongOpen \o SubSeq(s, p + 2, end - 2) \o StrongClose
                  ELSE EmOpen \o SubSeq(s, p + 1, end - 1) \o EmClose)
                 \o rest

Tagged(s) == TaggedFrom(s, 1)

\* C9: with no auxiliary lists the bold pass and then the italic pass turn every **t**
\* pair into <strong>t</strong> and every *t* pair into <em>t</em>; here for bodies whose
\* pairs stand apart from each other.
C9_PairsTagged ==
    (Processed /\ Absent("bold_texts") /\ Absent("italic_texts")
       /\ "*" \in Range(loc.cv_body) /\ Tagged(loc.cv_body) # <<"malformed">>) =>
        loc.italic_body = Tagged(loc.cv_body)

\* C10: after the bold pass and the italic pass the body holds no "*", whatever the body
\* and whatever the auxiliary lists.
C10_NoAsterisk ==
    Processed => "*" \notin Range(loc.italic_body)

\* asterisks outlived the bold pass, and an italic list was supplied
C10_Witness ==
    /\ Processed
    /\ "*" \in Range(loc.bold_body)
    /\ ~AbsentOrBlank("italic_texts")
    /\ loc.bold_body # loc.italic_body

\* the positions where t occurs in s
Occurrences(s, t) == {q \in 1..(Len(s) - Len(t) + 1) : SubSeq(s, q, q + Len(t) - 1) = t}

\* every occurrence of t in s stands directly between open and close
AllWrapped(s, t, open, close) ==
    \A q \in Occurrences(s, t) :
        /\ q > Len(open)
        /\ SubSeq(s, q - Len(open), q - 1) = open
        /\ StartsWith(Drop(s, q + Len(t) - 1), close)

TagChars == Range(StrongOpen \o StrongClose \o EmOpen \o EmClose)

\* the terms of a supplied list that are not empty and share no character with the tags
\* or the delimiters
PlainTerms(aux) ==
    IF aux.t # "str" THEN {}
    ELSE {t \in Range(AuxTerms(aux)) : t # <<>> /\ Range(t) \cap (TagChars \cup {"*"}) = {}}

\* C11: every occurrence of the bare text of a term of a supplied bold (italic) list is
\* wrapped in <strong> (<em>) tags by the bold (italic) pass: no occurrence is left bare
\* and none is lost, whether or not the term was detected as delimited, also inside a
\* span the delimited replacement has already tagged.
C11_BareTermsWrapped ==
    Processed =>
        /\ \A t \in PlainTerms(Get(file.rows[i], "bold_texts", StrCell(<<>>))) :
              /\ AllWrapped(loc.bold_body, t, StrongOpen, StrongClose)
              /\ Cardinality(Occurrences(loc.bold_body, t))
                    = Cardinality(Occurrences(loc.cv_body, t))
        /\ \A t \in PlainTerms(Get(file.rows[i], "italic_texts", StrCell(<<>>))) :
              /\ AllWrapped(loc.italic_body, t, EmOpen, EmClose)
              /\ Cardinality(Occurrences(loc.italic_body, t))
                    = Cardinality(Occurrences(loc.bold_body, t))

\* the bold list "a, b" on a body with **a** and an undelimited b: nested tags around a,
\* tags around the b that was not detected
C11_Witness ==
    /\ Processed
    /\ PlainTerms(Get(file.rows[i], "bold_texts", StrCell(<<>>))) = {<<"a">>, <<"b">>}
    /\ <<"b">> \notin Range(FindAll(loc.cv_body, <<"*", "*">>))
    /\ Occurrences(loc.bold_body,
                   StrongOpen \o StrongOpen \o <<"a">> \o StrongClose \o StrongClose) # {}
    /\ Occurrences(loc.bold_body, StrongOpen \o <<"b">> \o StrongClose) # {}

\* the maximal run of characters of S around position q of s
RunOf(s, q, S) ==
    (Max({p \in 1..q : s[p] \notin S} \cup {0}) + 1)
        .. (Min({p \in q..Len(s) : s[p] \notin S} \cup {Len(s) + 1}) - 1)

\* the pieces lo..hi of a text, joined
RECURSIVE JoinPieces(_, _, _)
JoinPieces(pieces, lo, hi) ==
    IF lo > hi THEN <<>>
    ELSE IF lo = hi THEN pieces[lo]
    ELSE JoinPieces(pieces, lo, (lo + hi) \div 2) \o JoinPieces(pieces, (lo + hi) \div 2 + 1, hi)

\* what position q of s becomes when every maximal run of two or more newlines becomes
\* one <br><br> and every other newline <br>
NewlineRunPiece(s, q) ==
    LET run == RunOf(s, q, {"\n"}) IN
    IF s[q] # "\n" THEN <<s[q]>>
    ELSE IF Cardinality(run) = 1 THEN BR
    ELSE IF q = Min(run) THEN BR \o BR
    ELSE <<>>

NewlineRunsRendered(s) == JoinPieces([q \in 1..Len(s) |-> NewlineRunPiece(s, q)], 1, Len(s))

\* C12 as stated: every maximal run of two or more consecutive newlines becomes exactly
\* one <br><br> and every remaining single newline becomes <br>.
C12_NewlineRuns ==
    Processed => loc.email_body = NewlineRunsRendered(loc.link_body)

\* what position q of s becomes when, in every maximal run of white space with two or
\* more newlines, the stretch from its first to its last newline becomes one <br><br>,
\* and every other newline <br>
BlankLinesPiece(s, q) ==
    LET newlines == {p \in RunOf(s, q, Whitespace) : s[p] = "\n"} IN
    IF s[q] \notin Whitespace \/ newlines = {} THEN <<s[q]>>
    ELSE IF q < Min(newlines) \/ q > Max(newlines) THEN <<s[q]>>
    ELSE IF Cardinality(newlines) = 1 THEN BR
    ELSE IF q = Min(newlines) THEN BR \o BR
    ELSE <<>>

BlankLinesRendered(s) == JoinPieces([q \in 1..Len(s) |-> BlankLinesPiece(s, q)], 1, Len(s))

\* C12, amended: every stretch of two or more newlines with nothing but white space
\* between them becomes exactly one <br><br> (the white space between them is dropped),
\* every remaining single newline becomes <br>, and no newline is left in the body.
C12_BlankLines ==
    Processed =>
        /\ loc.email_body = BlankLinesRendered(loc.link_body)
        /\ "\n" \notin Range(loc.email_body)

\* a body with a white-space-only line, a run of newlines and a single newline
C12_Witness ==
    /\ Processed
    /\ Occurrences(loc.link_body, <<"\n", " ", "\n">>) # {}
    /\ Occurrences(loc.link_body, <<"a", "\n", "a">>) # {}
    /\ Occurrences(loc.email_body, <<"a">> \o BR \o <<"a">>) # {}
    /\ Occurrences(loc.email_body, BR \o BR) # {}

LinkCell == Get(file.rows[i], "link_texts", StrCell(<<>>))

\* the entries of a link list, stripped
LinkEntries(cell) == IF cell.t = "str" THEN Map(Strip, Split(cell.v, ",")) ELSE <<>>

\* the entries that split into exactly two parts on "|", as <<text, url>>
WellFormedEntries(cell) ==
    {Split(e, "|") : e \in {x \in Range(LinkEntries(cell)) : Len(Split(x, "|")) = 2}}

AnchorChars == Range(Anchor(<<>>, <<>>))

\* a well-formed entry whose text is not empty and shares no character with the anchor
\* markup or with the urls of the list
PlainEntries(cell) ==
    {e \in WellFormedEntries(cell) :
        /\ e[1] # <<>>
        /\ Range(e[1]) \cap AnchorChars = {}
        /\ \A o \in WellFormedEntries(cell) : Range(e[1]) \cap Range(o[2]) = {}}

AnchorOpen(url) == SubSeq(Anchor(url, <<>>), 1, Len(Anchor(url, <<>>)) - 4)

AnchorClose == <<"<", "/", "a", ">">>

\* C13: when the link list is absent, blank or holds only entries that do not split into
\* exactly two parts, the body is what the markdown-link rewrite produced; every entry
\* text|url has each occurrence of its text wrapped in <a href="url">..</a>, none left
\* bare and none lost; and no row fails on account of its link list.
C13_MalformedEntriesSkipped ==
    /\ Processed =>
          /\ WellFormedEntries(LinkCell) = {} => loc.link_body = LinkSub(loc.italic_body)
          /\ \A e \in PlainEntries(LinkCell) :
                /\ AllWrapped(loc.link_body, e[1], AnchorOpen(e[2]), AnchorClose)
                /\ Cardinality(Occurrences(loc.link_body, e[1]))
                      = Cardinality(Occurrences(LinkSub(loc.italic_body), e[1]))
    /\ (cstate = "returned" /\ raised # "none" /\ file.readable) =>
          LET row == file.rows[i + 1] IN
          TextOrEmpty(Get(row, "link_texts", NaN)) =>
              ~(/\ "seq_number" \in file.cols
                /\ IntCoercible(Cell(row, "seq_number"))
                /\ IntCoercible(Get(row, "seq_delay_details", IntCell(0)))
                /\ TextOrEmpty(Get(row, "bold_texts", NaN))
                /\ TextOrEmpty(Get(row, "italic_texts", NaN)))

\* a list with a three-part entry and a one-part entry x next to S|v, on a body with S and x
C13_Witness ==
    /\ Processed
    /\ \E e \in Range(LinkEntries(LinkCell)) : Len(Split(e, "|")) = 3
    /\ PlainEntries(LinkCell) = {<<<<"S">>, <<"v">>>>}
    /\ Occurrences(loc.italic_body, <<"x">>) # {}
    /\ Occurrences(loc.link_body, Anchor(<<"v">>, <<"S">>)) # {}

LinkMarks == {"[", "]", "(", ")", "\n"}

\* the position of the ")" that ends the markdown link [text](url) opening at p, text and
\* url free of brackets, parentheses and newlines (0 when no such link opens at p)
CleanLinkEnd(s, p) ==
    LET q == Find(s, <<"]">>, p + 1)
        r == IF q = 0 THEN 0 ELSE Find(s, <<")">>, q + 2)
    IN IF /\ s[p] = "["
          /\ r # 0
          /\ s[q + 1] = "("
          /\ Range(SubSeq(s, p + 1, q - 1)) \cap LinkMarks = {}
          /\ Range(SubSeq(s, q + 2, r - 1)) \cap LinkMarks = {}
       THEN r
       ELSE 0

\* what position q of s becomes when every such link becomes its anchor
AnchoredPiece(s, q) ==
    IF \E p \in 1..(q - 1) : s[p] = "[" /\ CleanLinkEnd(s, p) >= q THEN <<>>
    ELSE IF s[q] = "[" /\ CleanLinkEnd(s, q) # 0
    THEN LET mid == Find(s, <<"]">>, q + 1) IN
         Anchor(SubSeq(s, mid + 2, CleanLinkEnd(s, q) - 1), SubSeq(s, q + 1, mid - 1))
    ELSE <<s[q]>>

Anchored(s) ==
    IF "[" \notin Range(s) THEN s
    ELSE JoinPieces([q \in 1..Len(s) |-> AnchoredPiece(s, q)], 1, Len(s))

\* every "[" of the text opens such a link
OnlyCleanLinks(s) == \A p \in 1..Len(s) : s[p] = "[" => CleanLinkEnd(s, p) # 0

\* the link list has no entry that touches the text: none of exactly two parts with an
\* empty text or a text that occurs in it
ListUntouching(cell, s) ==
    \A e \in WellFormedEntries(cell) : e[1] # <<>> /\ Occurrences(s, e[1]) = {}

\* C14: every [text](url) of the body is rewritten to <a href="url">text</a>, all of
\* them and whatever the link list: no "[" of a link is left, and but for what the
\* entries of the list wrap the body is the text with each link replaced by its anchor.
C14_MarkdownLinksRewritten ==
    (Processed /\ OnlyCleanLinks(loc.italic_body)) =>
        /\ "[" \notin Range(loc.link_body)
        /\ ListUntouching(LinkCell, Anchored(loc.italic_body)) =>
              loc.link_body = Anchored(loc.italic_body)

\* two links in one body, with a link list that is supplied
C14_Witness ==
    /\ Processed
    /\ Cardinality({p \in 1..Len(loc.italic_body) : loc.italic_body[p] = "["}) = 2
    /\ OnlyCleanLinks(loc.italic_body)
    /\ WellFormedEntries(LinkCell) # {}
    /\ ListUntouching(LinkCell, Anchored(loc.italic_body))
    /\ Cardinality(Occurrences(loc.link_body, Anchor(<<"u">>, <<"S">>))) = 2

\* a seq_number cell that holds a positive integer, as a number or as text
IsPositiveInteger(cell) ==
    /\ IntCoercible(cell)
    /\ cell.t = "float" => cell.v % 2 = 0
    /\ PyInt(cell) > 0

\* the workbook has a row whose seq_number is not a positive integer
HasNonPositiveKey ==
    /\ file.readable
    /\ "seq_number" \in file.cols
    /\ \E k \in DOMAIN file.rows : ~IsPositiveInteger(Cell(file.rows[k], "seq_number"))

\* C15: when some row's seq_number is not coercible to a positive integer (zero, a
\* negative number and a non-integral number included), the compile fails and returns
\* no step.
C15_NonPositiveKeyFailsAll ==
    (cstate = "returned" /\ HasNonPositiveKey) => (raised # "none" /\ payload = <<>>)

\* the delay of row k is not given: no such column, or an empty cell
NoDelay(k) == "seq_delay_details" \notin file.cols \/ isna(file.rows[k]["seq_delay_details"])

\* every delay of the workbook is an integer or is not given
DelaysGivenOrNot ==
    \A k \in DOMAIN file.rows :
        NoDelay(k) \/ IntCoercible(Cell(file.rows[k], "seq_delay_details"))

\* C16: when the rows are otherwise well-formed and a row has no delay (no
\* seq_delay_details column, or an empty cell), the compile does not fail, and a step
\* first created from such a row has delay_in_days = 0.
C16_NoDelayIsZero ==
    (cstate = "returned" /\ KeysCoercible /\ DelaysGivenOrNot) =>
        /\ raised = "none"
        /\ \A k \in DOMAIN payload :
              LET first == Min({r \in DOMAIN file.rows : RowKey(r) = payload[k].seq_number})
              IN NoDelay(first) => payload[k].delay_in_days = 0

\* the body of the row just processed is a rendering of the row before it
AlreadyRendered ==
    /\ Processed
    /\ i >= 2
    /\ BodyCell.t = "str"
    /\ LET before == file.rows[i - 1] IN
       /\ TextOrEmpty(Get(before, "bold_texts", StrCell(<<>>)))
       /\ TextOrEmpty(Get(before, "italic_texts", StrCell(<<>>)))
       /\ TextOrEmpty(Get(before, "link_texts", StrCell(<<>>)))
       /\ BodyCell.v \in RenderedBodies(Get(before, "email_body", StrCell(<<>>)),
                                        Get(before, "subject", StrCell(<<>>)),
                                        Get(before, "bold_texts", StrCell(<<>>)),
                                        Get(before, "italic_texts", StrCell(<<>>)),
                                        Get(before, "link_texts", StrCell(<<>>)))

\* a text in which the pattern of line 91 finds a markdown link
HasMarkdownLink(s) ==
    \E o \in Occurrences(s, <<"[">>) :
        \E m \in Occurrences(s, <<"]", "(">>) :
            /\ m > o
            /\ \E c \in Occurrences(s, <<")">>) :
                  c > m + 1 /\ "\n" \notin Range(SubSeq(s, o, c))

\* no "*", no backtick, no markdown link, no newline
NoDelimiters(s) ==
    /\ "*" \notin Range(s)
    /\ Backtick[1] \notin Range(s)
    /\ "\n" \notin Range(s)
    /\ ~HasMarkdownLink(s)

\* C17 as stated: the four stages run on an already rendered body with no "*", no
\* backtick, no markdown link and no newline return that body unchanged.
C17_RerunIsNoOp ==
    (AlreadyRendered /\ NoDelimiters(BodyCell.v)) => loc.email_body = BodyCell.v

\* the list is an empty cell, or no term of it is empty or occurs in the text
NoTermIn(cell, s) ==
    \/ isna(cell)
    \/ cell.t = "str" /\ \A t \in Range(AuxTerms(cell)) : t # <<>> /\ Occurrences(s, t) = {}

\* C17, amended: the four stages run on an already rendered body with no "*", no
\* backtick, no markdown link and no newline return that body unchanged when the lists
\* of the second run are empty cells or hold no term (no link text) that is empty or
\* occurs in the body.
C17_RerunWithoutTermsIsNoOp ==
    (/\ AlreadyRendered
     /\ NoDelimiters(BodyCell.v)
     /\ NoTermIn(Get(file.rows[i], "bold_texts", StrCell(<<>>)), BodyCell.v)
     /\ NoTermIn(Get(file.rows[i], "italic_texts", StrCell(<<>>)), BodyCell.v)
     /\ ListUntouching(LinkCell, BodyCell.v)) =>
        loc.email_body = BodyCell.v

\* a rendered body that holds tags went through the stages again and came back the same
C17_Witness ==
    /\ AlreadyRendered
    /\ NoDelimiters(BodyCell.v)
    /\ Occurrences(BodyCell.v, StrongOpen \o <<"a">> \o StrongClose) # {}
    /\ Occurrences(BodyCell.v, BR) # {}
    /\ NoTermIn(Get(file.rows[i], "bold_texts", StrCell(<<>>)), BodyCell.v)
    /\ loc.email_body = BodyCell.v

\* C18: for the body and the lists of a row, process_bold_text has one result whatever
\* the order in which the set of terms is iterated, and so has process_italic_text on
\* each body the bold pass can hand it.
C18_OrderIndependent ==
    Processed =>
        /\ Cardinality(process_bold_text(loc.cv_body,
                                         Get(file.rows[i], "bold_texts", StrCell(<<>>)))) = 1
        /\ Cardinality(process_italic_text(loc.bold_body,
                                           Get(file.rows[i], "italic_texts", StrCell(<<>>)))) = 1

\* the positions of the log before n where call name for campaign sp returned 200
Done(name, sp, n) ==
    {m \in 1..(n - 1) : api[m] = Call(name, sp, 200)}

\* C19: a campaign_scheduling call for a campaign comes after that campaign was created,
\* got its leads, got the sequences and got its unsubscribe settings, and after every
\* campaign of the run (one per SP with leads) got leads and sequences; and a call that
\* returns a status other than 200 is the last call of the run.
C19_LaunchOrdering ==
    /\ \A n \in DOMAIN api :
          api[n].call = "campaign_scheduling" =>
              /\ Done("campaign_creation", api[n].sp, n) # {}
              /\ Done("add_leads_to_campaign", api[n].sp, n) # {}
              /\ Done("add_email_sequence", api[n].sp, n) # {}
              /\ Done("add_unsub", api[n].sp, n) # {}
              /\ Range(campaign_ids) = Range(sps)
              /\ \A sp \in Range(sps) :
                    /\ Done("add_leads_to_campaign", sp, n) # {}
                    /\ Done("add_email_sequence", sp, n) # {}
    /\ \A n \in DOMAIN api : api[n].status # 200 => n = Len(api)
    /\ (Len(api) > 0 /\ api[Len(api)].status # 200) => pc.at = "failed"

\* two campaigns were scheduled in a run that completed
C19_Witness ==
    /\ pc.at = "done"
    /\ Len(sps) = 2
    /\ Cardinality({n \in DOMAIN api : api[n].call = "campaign_scheduling"}) = 2

(***************************************************************************)
(* Properties of the title classifier's interruption handling              *)
(***************************************************************************)
\* the row the k-th line of a written file carries
FileRow(f, k) == [tier |-> f.Tier[k], relevant |-> f.Relevant[k]]

\* the positions in titles that the inner loop has recorded
RecordedPositions == 1..Min({excel.i + excel.t, Len(excel.titles)})

\* the written file carries, for every line of the workbook, the recorded
\* classification of its title, and the default when nothing is recorded
FileShowsResults(f) ==
    \A k \in 1..Len(excel.df) :
        LET x == excel.df[k]
        IN  /\ x \in DOMAIN excel.results => FileRow(f, k) = excel.results[x]
            /\ x \notin DOMAIN excel.results => FileRow(f, k) = NotRelevant

\* C20: a signal during the batch loop writes exactly one partial file and
\* stops the run (no step follows, so no further batch is classified); in that
\* file every title recorded so far, those of the fully recorded batches
\* included, carries the classification recorded for it, which is the model's
\* answer or, when the model returned none, the default; every title not yet
\* processed carries the default; recorded classifications never change; no
\* file is written while the loop runs; and a run that is not interrupted
\* ends with exactly one final file written after all batches were recorded.
C20_Interruption ==
    /\ [](/\ excel.at \in {"loop", "record", "sleep", "crashed"} => excel.files = <<>>
          /\ excel.at = "exited" =>
                /\ Len(excel.files) = 1
                /\ excel.files[1].partial
                /\ FileShowsResults(excel.files[1])
          /\ excel.at = "done" =>
                /\ Len(excel.files) = 1
                /\ ~excel.files[1].partial
                /\ excel.i >= Len(excel.titles)
                /\ FileShowsResults(excel.files[1])
          /\ excel.at # "off" =>
                /\ DOMAIN excel.results = {excel.titles[p] : p \in RecordedPositions}
                /\ \A p \in 1..excel.t :
                      excel.results[Batch[p]] = DictGet(excel.classified, Batch[p], NotRelevant))
    /\ [][/\ excel.at \notin {"exited", "done", "crashed"}
          /\ \A x \in DOMAIN excel.results :
                x \in DOMAIN excel'.results /\ excel'.results[x] = excel.results[x]]_vars

\* C20 witness: the signal arrived inside the second batch, after a first
\* batch in which the model classified one title and did not return another
C20_Witness ==
    /\ excel.at = "exited"
    /\ Len(excel.files) = 1
    /\ excel.files[1].partial
    /\ excel.i = batch_size
    /\ Len(excel.titles) > batch_size
    /\ \E k \in 1..Len(excel.df) : FileRow(excel.files[1], k).tier = "Tier 1"
    /\ \E p \in 1..batch_size : excel.results[excel.titles[p]] = NotRelevant
    /\ \E p \in 1..Len(excel.titles) : excel.titles[p] \notin DOMAIN excel.results

====
